---- MODULE Spec2Model ----
(***************************************************************************)
(* Model of the per-blade deployment script of vtds-platform-ubuntu        *)
(* (src/vtds_platform_ubuntu/private/scripts/deploy_to_blade.py):          *)
(* main(), the NetworkInstaller class and run_cmd().                       *)
(*                                                                         *)
(* The script drives three external tools: "ip"/"bridge" (kernel network   *)
(* devices) and "virsh" (libvirt network registry).  Their state is part   *)
(* of the model (links, registry); their behaviour is modelled by the      *)
(* operators named after the command (LinkDel, LinkAddVxlan, ...).         *)
(***************************************************************************)
EXTENDS Integers, Sequences, FiniteSets, TLC

\* Marker for "key not present in the configuration" / "no value".
None == "<none>"

\* Number of networks declared in the blade configuration (at most).
MaxNets == 2
\* Number of times the script is run in succession on the blade (at most).
MaxRuns == 2
\* Seconds run_cmd is followed for (at most), and the largest timeout given.
MaxTime == 30
MaxTimeout == 12
\* Interfaces in a snapshot given to _find_underlay alone (at most).
MaxIfs == 2
\* Calls made on a platform layer object, and virtual blades (at most).
MaxCalls == 4
MaxBlades == 2

VARIABLES
    networks,       \* config['networks'] in iteration order (main, line 491)
    links,          \* kernel network devices, in ifindex order
    registry,       \* libvirt networks: name -> [state, autostart, bridge]
    interfaces,     \* NetworkInstaller.interfaces (snapshot of links)
    vxlans,         \* NetworkInstaller.vxlans (names)
    bridges,        \* NetworkInstaller.bridges (names)
    vnets,          \* NetworkInstaller.vnets (list of names)
    pc,             \* position of the script
    idx,            \* 0: before the loop of main; k: k-th network
    run,            \* which run of the script this is
    status,         \* "running", "ok" (exit 0) or the error raised
    device,         \* local of construct_virtual_network (line 477)
    local_ip_addr,  \* local of construct_virtual_network (line 477)
    fdb_i,          \* position in remote_ips (connect_endpoints, line 419)
    trace,          \* history: steps taken by the current construct call
    entry,          \* history: blade state when the current call started
    prev,           \* history: blade state at the end of the previous run
    blade0,         \* history: the devices before the first run
    stderr,         \* the diagnostics written to the error stream by the run
    queries,        \* history: how the snapshot queries of each run went
    cmd_pc,         \* run_cmd: "idle", "popen", "wait", "returned", "raised"
    timeout,        \* run_cmd: the timeout argument (-1: None, or seconds)
    time,           \* run_cmd: local time
    signaled,       \* run_cmd: local signaled
    exitval,        \* run_cmd: local exitval
    error,          \* run_cmd: the ContextualError raised (None: none)
    child,          \* the command: [state, obeys, sigterm]
    terminates,     \* history: calls of command.terminate()
    kills,          \* history: calls of command.kill()
    platform,       \* a PrivatePlatform object: its class and fields
    deployed,       \* the blades deploy() has run the blade script on
    log             \* history: the calls made on the object, with results

vars == <<networks, links, registry, interfaces, vxlans, bridges, vnets, pc,
          idx, run, status, device, local_ip_addr, fdb_i, trace, entry, prev,
          blade0, stderr, queries, cmd_pc, timeout, time, signaled, exitval, error, child,
          terminates, kills, platform, deployed, log>>

\* the variables of main and NetworkInstaller / of one run_cmd call
scriptvars == <<networks, links, registry, interfaces, vxlans, bridges, vnets,
                pc, idx, run, status, device, local_ip_addr, fdb_i, trace,
                entry, prev, blade0, stderr, queries>>

cmdvars == <<cmd_pc, timeout, time, signaled, exitval, error, child,
             terminates, kills>>

\* the variables of the platform layer object
platformvars == <<platform, deployed, log>>

-----------------------------------------------------------------------------
(* Inputs: the blade configuration and the blade the script finds.         *)

NetworkNames == {"n0", "n1"}
TunnelNames == {None, "vx"}
BridgeNames == {None, "n1"}
EndpointLists ==
    { <<"10.0.0.1", "10.0.0.2", "10.0.0.3">>,
      <<"10.0.0.1", "10.0.0.3">>,
      <<"10.0.0.3", "10.0.0.2">> }

NetworkSpecs ==
    [network_name : NetworkNames, tunnel_name : TunnelNames,
     bridge_name : BridgeNames, endpoint_ips : EndpointLists]

Configs == UNION {[1..n -> NetworkSpecs] : n \in 0..MaxNets}

\* A kernel network device.  kind is linkinfo.info_kind ("other": no
\* vxlan/bridge linkinfo); addrs is addr_info[*].local; fdb is the set of
\* 'dst' of the forwarding entries on the device; dev is the lower device
\* of a vxlan.
Link(n, k, a, f, m, d) ==
    [ifname |-> n, kind |-> k, addrs |-> a, fdb |-> f, master |-> m, dev |-> d]

Eth0 == Link("eth0", "other", <<"10.0.0.2">>, {}, None, None)

\* A device found on the blade before the first run: possibly one named
\* like a configured tunnel or bridge, of any kind, possibly with an
\* address; a vxlan carries forwarding entries of an earlier deployment.
PreLinks ==
    { Link(n, k, a, IF k = "vxlan" THEN {"10.0.0.1", "10.0.0.4"} ELSE {},
           None, IF k = "vxlan" THEN "eth0" ELSE None) :
        n \in {"vx", "n1"}, k \in {"vxlan", "bridge", "other"},
        a \in {<< >>, <<"10.0.0.1">>} }

Blades ==
    {<<Eth0>>} \cup {<<Eth0, d>> : d \in PreLinks}
               \cup {<<d, Eth0>> : d \in {p \in PreLinks : p.addrs # << >>}}

RegNames == NetworkNames \cup {"default"}

Absent == [state |-> "absent", autostart |-> FALSE, bridge |-> None]

\* libvirt networks before the first run: none, or one of "default"/"n0"
\* either running with autostart or defined but not running.
Registries ==
    {[n \in RegNames |-> Absent]} \cup
    { [n \in RegNames |->
          IF n = m THEN [state |-> s, autostart |-> (s = "running"),
                         bridge |-> "virbr0"]
          ELSE Absent] : m \in {"default", "n0"}, s \in {"defined", "running"} }

\* The blade before the first run: <<devices, libvirt networks>>.  Either
\* the devices or the libvirt networks are out of the ordinary.
Hosts ==
    {<<b, [n \in RegNames |-> Absent]>> : b \in Blades} \cup
    {<<(<<Eth0>>), r>> : r \in Registries}

-----------------------------------------------------------------------------
(* Helpers on device lists.                                                *)

IfNames(ls) == {ls[i].ifname : i \in DOMAIN ls}

IfDesc(ls, name) == ls[CHOOSE i \in DOMAIN ls : ls[i].ifname = name]

Elems(s) == {s[i] : i \in DOMAIN s}

-----------------------------------------------------------------------------
(* The external tools.  Can<Cmd> is when the tool exits with status 0,     *)
(* <Cmd> is what it then does.                                             *)

\* "ip link del <name>": the device goes; devices enslaved to it lose their
\* master; vxlan devices bound to it as lower device are deleted with it.
CanLinkDel(ls, name) == name \in IfNames(ls)

LinkDel(ls, name) ==
    LET kept == SelectSeq(ls, LAMBDA d : d.ifname # name /\ d.dev # name)
        gone == IfNames(ls) \ IfNames(kept)
    IN  [i \in DOMAIN kept |->
            IF kept[i].master \in gone
            THEN [kept[i] EXCEPT !.master = None] ELSE kept[i]]

\* "ip link add <name> type vxlan id <id> dev <dev> dstport 0"
CanLinkAddVxlan(ls, name, dev) ==
    name \notin IfNames(ls) /\ dev \in IfNames(ls)

LinkAddVxlan(ls, name, dev) ==
    Append(ls, Link(name, "vxlan", << >>, {}, None, dev))

\* "ip link add <name> type bridge"
CanLinkAddBridge(ls, name) == name \notin IfNames(ls)

LinkAddBridge(ls, name) ==
    Append(ls, Link(name, "bridge", << >>, {}, None, None))

\* "ip link set <name> master <bridge>"
CanLinkSetMaster(ls, name, bridge) ==
    /\ name \in IfNames(ls)
    /\ bridge \in IfNames(ls)
    /\ name # bridge
    /\ IfDesc(ls, bridge).kind = "bridge"

\* mutant: the tunnel is never put under the bridge
LinkSetMasterOmitted(ls, name, bridge) == ls

LinkSetMaster(ls, name, bridge) ==
    [i \in DOMAIN ls |->
        IF ls[i].ifname = name THEN [ls[i] EXCEPT !.master = bridge]
        ELSE ls[i]]

\* "bridge fdb append to 00:00:00:00:00:00 dst <ip> dev <name>": adds the
\* destination to the all-zero entry of the vxlan device (no duplicates).
CanFdbAppend(ls, name) ==
    name \in IfNames(ls) /\ IfDesc(ls, name).kind = "vxlan"

FdbAppend(ls, name, ip_addr) ==
    [i \in DOMAIN ls |->
        IF ls[i].ifname = name
        THEN [ls[i] EXCEPT !.fdb = @ \cup {ip_addr}] ELSE ls[i]]

\* "virsh net-destroy <name>": stops a running network.
CanNetDestroy(reg, name) == reg[name].state = "running"

NetDestroy(reg, name) == [reg EXCEPT ![name].state = "defined"]

\* "virsh net-undefine <name>"
CanNetUndefine(reg, name) == reg[name].state # "absent"

NetUndefine(reg, name) == [reg EXCEPT ![name] = Absent]

\* "virsh net-define <file>": the file names the network and its bridge
\* and carries no uuid, so it is refused when the name is already defined.
CanNetDefine(reg, name) == reg[name].state = "absent"

NetDefine(reg, name, bridge) ==
    [reg EXCEPT ![name] =
        [state |-> "defined", autostart |-> FALSE, bridge |-> bridge]]

\* "virsh net-start <name>"
CanNetStart(reg, name) == reg[name].state = "defined"

NetStart(reg, name) == [reg EXCEPT ![name].state = "running"]

\* "virsh net-autostart <name>"
CanNetAutostart(reg, name) == reg[name].state # "absent"

NetAutostart(reg, name) == [reg EXCEPT ![name].autostart = TRUE]

\* "virsh net-list --name" prints the active networks, sorted by name.
RegOrder == <<"default", "n0", "n1">>

-----------------------------------------------------------------------------
(* NetworkInstaller                                                        *)

\* _get_interfaces: the devices with their kind, addresses and fdb_dsts,
\* keyed by ifname in the order "ip addr" lists them.
GetInterfaces(ls) == ls

\* _get_virtual_networks
GetVirtualNetworks(reg) ==
    SelectSeq(RegOrder, LAMBDA n : reg[n].state = "running")

\* the vxlans / bridges dictionaries of __init__ (their keys)
KindNames(ifs, kind) == {ifs[i].ifname : i \in {j \in DOMAIN ifs : ifs[j].kind = kind}}

\* config.get(...) of construct_virtual_network, lines 467-471
network_name(config) == config.network_name

tunnel_name(config) ==
    IF config.tunnel_name = None THEN network_name(config)
    ELSE config.tunnel_name

bridge_name(config) ==
    IF config.bridge_name = None THEN "br-" \o tunnel_name(config)
    ELSE config.bridge_name

endpoint_ips(config) == config.endpoint_ips

\* mutant: only the tunnel name is checked
CheckConflictTunnelOnly(ifs, vx, br, name, bridge) ==
    name \in IfNames(ifs) /\ name \notin vx

\* _check_conflict: TRUE when it raises
CheckConflict(ifs, vx, br, name, bridge) ==
    \/ name \in IfNames(ifs) /\ name \notin vx
    \/ bridge \in IfNames(ifs) /\ bridge \notin br

\* _find_underlay: the (interface, address) pairs in scan order
UnderlayMatches(ifs, ips) ==
    { m \in UNION {{<<i, j>> : j \in DOMAIN ifs[i].addrs} : i \in DOMAIN ifs} :
        ifs[m[1]].addrs[m[2]] \in Elems(ips) }

\* mutant: the last matching (interface, address) pair is taken
LastMatch(ifs, ips) ==
    CHOOSE m \in UnderlayMatches(ifs, ips) :
        \A o \in UnderlayMatches(ifs, ips) :
            m[1] > o[1] \/ (m[1] = o[1] /\ m[2] >= o[2])

FirstMatch(ifs, ips) ==
    CHOOSE m \in UnderlayMatches(ifs, ips) :
        \A o \in UnderlayMatches(ifs, ips) :
            m[1] < o[1] \/ (m[1] = o[1] /\ m[2] <= o[2])

\* mutant: falls back to the first interface instead of raising
FindUnderlayFallback(ifs, ips) ==
    IF UnderlayMatches(ifs, ips) = {} THEN <<ifs[1].ifname, ips[1]>>
    ELSE LET m == FirstMatch(ifs, ips)
         IN  <<ifs[m[1]].ifname, ifs[m[1]].addrs[m[2]]>>

FindUnderlay(ifs, ips) ==
    IF UnderlayMatches(ifs, ips) = {} THEN <<None, None>>
    ELSE LET m == FirstMatch(ifs, ips)
         IN  <<ifs[m[1]].ifname, ifs[m[1]].addrs[m[2]]>>

\* mutant: the local address is not filtered out of the mesh
RemoteIpsUnfiltered(ips, local) == ips

\* connect_endpoints, lines 415-418
RemoteIps(ips, local) == SelectSeq(ips, LAMBDA ip_addr : ip_addr # local)

\* list.remove(x): drops the first occurrence
ListRemove(s, x) ==
    LET i == CHOOSE k \in DOMAIN s : s[k] = x /\ \A l \in 1..(k-1) : s[l] # x
    IN  SubSeq(s, 1, i - 1) \o SubSeq(s, i + 1, Len(s))

-----------------------------------------------------------------------------
(* The script: main() and the steps of NetworkInstaller it calls.  Every   *)
(* external command is one step; it either exits 0 and has its effect, or  *)
(* exits nonzero (for the tool's own reasons or any other) and run_cmd     *)
(* raises ContextualError, which ends the script (entrypoint, line 511).   *)

Config == networks[idx]

\* The blade state the claims compare: devices (without their order) and
\* libvirt networks.
BladeState(ls, reg) == [links |-> Elems(ls), registry |-> reg]

NoState == BladeState(<< >>, [n \in RegNames |-> Absent])

\* no run_cmd call is being followed
NoCommand ==
    /\ cmd_pc = "idle"
    /\ timeout = 0 - 1
    /\ time = 0
    /\ signaled = FALSE
    /\ exitval = 0
    /\ error = None
    /\ child = [state |-> "none", obeys |-> TRUE, sigterm |-> FALSE]
    /\ terminates = 0
    /\ kills = 0

\* no platform layer object is being followed
NoPlatform ==
    /\ platform = [layer |-> None, networks |-> 0, prepared |-> FALSE,
                   provider_api |-> FALSE, endpoint_ips |-> 0,
                   blade_config |-> "absent"]
    /\ deployed = {}
    /\ log = << >>

Init ==
    /\ networks \in Configs
    /\ \E host \in Hosts : links = host[1] /\ registry = host[2]
    /\ interfaces = << >>
    /\ vxlans = {}
    /\ bridges = {}
    /\ vnets = << >>
    /\ pc = "setup_packages"
    /\ idx = 0
    /\ run = 1
    /\ status = "running"
    /\ device = None
    /\ local_ip_addr = None
    /\ fdb_i = 1
    /\ trace = << >>
    /\ entry = NoState
    /\ prev = NoState
    /\ blade0 = links
    /\ stderr = << >>
    /\ queries = << >>
    /\ NoCommand
    /\ NoPlatform

\* mutant: the error is recorded and the script carries on with the
\* registration of the network
RaiseAndCarryOn(err) ==
    /\ pc' = "remove_virtual_network"
    /\ status' = err
    /\ stderr' = Append(stderr, err)

\* raise ContextualError(...) caught by entrypoint: error_msg, sys.exit(1)
Raise(err) ==
    /\ pc' = "exit"
    /\ status' = err
    /\ stderr' = Append(stderr, err)

\* the statement after a command that exited 0
Goto(next) == pc' = next /\ status' = status /\ stderr' = stderr

\* the exit status of the process: main returned, or sys.exit(1) (line 512)
ExitCode(st) == IF st = "ok" THEN 0 ELSE 1

\* mutant: main returns after the first declared network
NextNetworkFirstOnly ==
    /\ IF idx < Len(networks) /\ idx < 1
       THEN pc' = "check_conflict" /\ idx' = idx + 1 /\ status' = status
       ELSE pc' = "done" /\ idx' = idx /\ status' = "ok"
    /\ stderr' = stderr

\* What follows the return of construct_virtual_network in main's loop.
NextNetwork ==
    /\ IF idx < Len(networks)
       THEN pc' = "check_conflict" /\ idx' = idx + 1 /\ status' = status
       ELSE pc' = "done" /\ idx' = idx /\ status' = "ok"
    /\ stderr' = stderr

\* main, line 494: apt / debconf / systemctl commands, any may fail
SetupPackages ==
    /\ pc = "setup_packages"
    /\ \/ Goto("NetworkInstaller")
       \/ Raise("command_failed")
    /\ UNCHANGED <<queries, cmdvars, platformvars>>
    /\ UNCHANGED <<networks, links, registry, interfaces, vxlans, bridges,
                   vnets, idx, run, device, local_ip_addr, fdb_i, trace,
                   entry, prev, blade0>>

\* How the queries of the snapshot may go.  "ip", "bridge" and "virsh" are
\* started with Popen and their exit status is not looked at:
\*   "unavailable"  the program cannot be started, Popen raises OSError;
\*   "malformed"    "ip" or "bridge" prints something json.loads rejects
\*                  (nothing at all, when the tool fails);
\*   "virsh_failed" "virsh net-list" fails, printing no name on stdout
\*                  (the answer of a working virsh when no network is
\*                  running, so it is told apart only when one is).
QueryOutcomes(reg) ==
    {"ok", "unavailable", "malformed"} \cup
    (IF GetVirtualNetworks(reg) # << >> THEN {"virsh_failed"} ELSE {})

\* an exception entrypoint does not catch (lines 509-515): the interpreter
\* writes the traceback to the error stream and exits with status 1
Uncaught(exc) ==
    /\ pc' = "exit"
    /\ status' = exc
    /\ stderr' = Append(stderr, exc)

\* NetworkInstaller.__init__, then main line 496 calls
\* remove_virtual_network("default")
NewInstaller ==
    /\ pc = "NetworkInstaller"
    /\ \E q \in QueryOutcomes(registry) :
          /\ queries' = Append(queries, q)
          /\ CASE q = "unavailable" ->
                     /\ Uncaught("OSError")
                     /\ UNCHANGED <<interfaces, vxlans, bridges, vnets>>
               [] q = "malformed" ->
                     /\ Uncaught("JSONDecodeError")
                     /\ UNCHANGED <<interfaces, vxlans, bridges, vnets>>
               [] q = "virsh_failed" ->
                     /\ interfaces' = GetInterfaces(links)
                     /\ vxlans' = KindNames(GetInterfaces(links), "vxlan")
                     /\ bridges' = KindNames(GetInterfaces(links), "bridge")
                     /\ vnets' = << >>
                     /\ Goto("remove_virtual_network")
               [] q = "ok" ->
                     /\ interfaces' = GetInterfaces(links)
                     /\ vxlans' = KindNames(GetInterfaces(links), "vxlan")
                     /\ bridges' = KindNames(GetInterfaces(links), "bridge")
                     /\ vnets' = GetVirtualNetworks(registry)
                     /\ Goto("remove_virtual_network")
    /\ UNCHANGED <<cmdvars, platformvars>>
    /\ UNCHANGED <<networks, links, registry, idx, run, device,
                   local_ip_addr, fdb_i, trace, entry, prev, blade0>>

\* construct_virtual_network, lines 467-472
ConstructCheckConflict ==
    /\ pc = "check_conflict"
    /\ trace' = <<"check_conflict">>
    /\ entry' = BladeState(links, registry)
    /\ IF CheckConflict(interfaces, vxlans, bridges,
                        tunnel_name(Config), bridge_name(Config))
       THEN Raise("name_conflict")
       ELSE Goto("remove_tunnel")
    /\ UNCHANGED <<queries, cmdvars, platformvars>>
    /\ UNCHANGED <<networks, links, registry, interfaces, vxlans, bridges,
                   vnets, idx, run, device, local_ip_addr, fdb_i, prev, blade0>>

\* lines 473-474 / 475-476: remove_link when the snapshot lists the name
RemoveLink(at, tag, name, next) ==
    /\ pc = at
    /\ IF name \in IfNames(interfaces)
       THEN /\ trace' = Append(trace, tag)
            /\ \/ /\ CanLinkDel(links, name)
                  /\ links' = LinkDel(links, name)
                  /\ Goto(next)
               \/ /\ links' = links
                  /\ Raise("command_failed")
       ELSE /\ trace' = trace
            /\ links' = links
            /\ Goto(next)
    /\ UNCHANGED <<queries, cmdvars, platformvars>>
    /\ UNCHANGED <<networks, registry, interfaces, vxlans, bridges, vnets,
                   idx, run, device, local_ip_addr, fdb_i, entry, prev, blade0>>

RemoveTunnel ==
    RemoveLink("remove_tunnel", "remove_tunnel", tunnel_name(Config),
               "remove_bridge")

RemoveBridge ==
    RemoveLink("remove_bridge", "remove_bridge", bridge_name(Config),
               "find_underlay")

\* line 477
ConstructFindUnderlay ==
    /\ pc = "find_underlay"
    /\ trace' = Append(trace, "find_underlay")
    /\ LET found == FindUnderlay(interfaces, endpoint_ips(Config))
       IN  IF found[1] = None
           THEN /\ Raise("no_underlay")
                /\ UNCHANGED <<device, local_ip_addr>>
           ELSE /\ device' = found[1]
                /\ local_ip_addr' = found[2]
                /\ Goto("add_tunnel")
    /\ UNCHANGED <<queries, cmdvars, platformvars>>
    /\ UNCHANGED <<networks, links, registry, interfaces, vxlans, bridges,
                   vnets, idx, run, fdb_i, entry, prev, blade0>>

\* a step of add_new_tunnel / connect_endpoints: one "ip"/"bridge" command
LinkCmd(at, can, after, next) ==
    /\ pc = at
    /\ trace' = Append(trace, at)
    /\ \/ /\ can
          /\ links' = after
          /\ Goto(next)
       \/ /\ links' = links
          /\ Raise("command_failed")
    /\ UNCHANGED <<queries, cmdvars, platformvars>>
    /\ UNCHANGED <<networks, registry, interfaces, vxlans, bridges, vnets,
                   idx, run, device, local_ip_addr, entry, prev, blade0>>

\* mutant: the tunnel is mastered before the bridge is created
AddTunnelThenMaster ==
    /\ LinkCmd("add_tunnel",
               CanLinkAddVxlan(links, tunnel_name(Config), device),
               LinkAddVxlan(links, tunnel_name(Config), device),
               "set_master")
    /\ UNCHANGED fdb_i

\* add_new_tunnel, lines 388-397
AddTunnel ==
    /\ LinkCmd("add_tunnel",
               CanLinkAddVxlan(links, tunnel_name(Config), device),
               LinkAddVxlan(links, tunnel_name(Config), device),
               "add_bridge")
    /\ UNCHANGED fdb_i

\* add_new_tunnel, lines 399-402
AddBridge ==
    /\ LinkCmd("add_bridge",
               CanLinkAddBridge(links, bridge_name(Config)),
               LinkAddBridge(links, bridge_name(Config)),
               "set_master")
    /\ UNCHANGED fdb_i

remote_ips == RemoteIps(endpoint_ips(Config), local_ip_addr)

\* add_new_tunnel, lines 404-407; then connect_endpoints starts its loop
\* (no command at all when remote_ips is empty)
SetMaster ==
    /\ LinkCmd("set_master",
               CanLinkSetMaster(links, tunnel_name(Config), bridge_name(Config)),
               LinkSetMaster(links, tunnel_name(Config), bridge_name(Config)),
               IF remote_ips = << >> THEN "remove_virtual_network"
               ELSE "connect_endpoints")
    /\ fdb_i' = 1

\* mutant: a failing entry takes the entries added before it off the tunnel
ConnectEndpointsRollback ==
    /\ pc = "connect_endpoints"
    /\ trace' = Append(trace, "connect_endpoints")
    /\ \/ /\ CanFdbAppend(links, tunnel_name(Config))
          /\ links' = FdbAppend(links, tunnel_name(Config), remote_ips[fdb_i])
          /\ fdb_i' = fdb_i + 1
          /\ Goto(IF fdb_i = Len(remote_ips) THEN "remove_virtual_network"
                  ELSE "connect_endpoints")
       \/ /\ links' = [i \in DOMAIN links |->
                          IF links[i].ifname = tunnel_name(Config)
                          THEN [links[i] EXCEPT !.fdb = {}] ELSE links[i]]
          /\ fdb_i' = fdb_i
          /\ Raise("command_failed")
    /\ UNCHANGED <<queries, cmdvars, platformvars>>
    /\ UNCHANGED <<networks, registry, interfaces, vxlans, bridges, vnets,
                   idx, run, device, local_ip_addr, entry, prev, blade0>>

\* connect_endpoints, lines 419-427: one iteration of the loop
ConnectEndpoints ==
    /\ pc = "connect_endpoints"
    /\ trace' = Append(trace, "connect_endpoints")
    /\ \/ /\ CanFdbAppend(links, tunnel_name(Config))
          /\ links' = FdbAppend(links, tunnel_name(Config), remote_ips[fdb_i])
          /\ fdb_i' = fdb_i + 1
          /\ Goto(IF fdb_i = Len(remote_ips) THEN "remove_virtual_network"
                  ELSE "connect_endpoints")
       \/ /\ links' = links
          /\ fdb_i' = fdb_i
          /\ Raise("command_failed")
    /\ UNCHANGED <<queries, cmdvars, platformvars>>
    /\ UNCHANGED <<networks, registry, interfaces, vxlans, bridges, vnets,
                   idx, run, device, local_ip_addr, entry, prev, blade0>>

\* the name remove_virtual_network is called with: "default" by main
\* (line 496), network_name by construct_virtual_network (line 480)
RemovedName == IF idx = 0 THEN "default" ELSE network_name(Config)

\* what follows the return of remove_virtual_network
AfterRemove ==
    IF idx = 0 THEN NextNetwork
    ELSE Goto("net_define") /\ idx' = idx

\* remove_virtual_network, lines 454-457
RemoveVirtualNetwork ==
    /\ pc = "remove_virtual_network"
    /\ trace' = Append(trace, "remove_virtual_network")
    /\ IF RemovedName \notin Elems(vnets)
       THEN /\ registry' = registry
            /\ AfterRemove
       ELSE /\ idx' = idx
            /\ \/ /\ CanNetDestroy(registry, RemovedName)
                  /\ registry' = NetDestroy(registry, RemovedName)
                  /\ Goto("net_undefine")
               \/ /\ registry' = registry
                  /\ Raise("command_failed")
    /\ UNCHANGED <<queries, cmdvars, platformvars>>
    /\ UNCHANGED <<networks, links, interfaces, vxlans, bridges, vnets,
                   run, device, local_ip_addr, fdb_i, entry, prev, blade0>>

\* remove_virtual_network, lines 458-459
RemoveVirtualNetworkUndefine ==
    /\ pc = "net_undefine"
    /\ trace' = Append(trace, "net_undefine")
    /\ \/ /\ CanNetUndefine(registry, RemovedName)
          /\ registry' = NetUndefine(registry, RemovedName)
          /\ vnets' = ListRemove(vnets, RemovedName)
          /\ AfterRemove
       \/ /\ registry' = registry
          /\ vnets' = vnets
          /\ idx' = idx
          /\ Raise("command_failed")
    /\ UNCHANGED <<queries, cmdvars, platformvars>>
    /\ UNCHANGED <<networks, links, interfaces, vxlans, bridges, run,
                   device, local_ip_addr, fdb_i, entry, prev, blade0>>

\* a step of add_virtual_network: one "virsh" command
VirshCmd(at, can, after, next) ==
    /\ pc = at
    /\ trace' = Append(trace, at)
    /\ \/ /\ can
          /\ registry' = after
          /\ Goto(next)
       \/ /\ registry' = registry
          /\ Raise("command_failed")
    /\ UNCHANGED <<queries, cmdvars, platformvars>>
    /\ UNCHANGED <<networks, links, interfaces, vxlans, bridges, vnets, idx,
                   run, device, local_ip_addr, fdb_i, entry, prev, blade0>>

\* add_virtual_network, lines 434-445
AddVirtualNetworkDefine ==
    VirshCmd("net_define",
             CanNetDefine(registry, network_name(Config)),
             NetDefine(registry, network_name(Config), bridge_name(Config)),
             "net_start")

\* add_virtual_network, line 446
AddVirtualNetworkStart ==
    VirshCmd("net_start",
             CanNetStart(registry, network_name(Config)),
             NetStart(registry, network_name(Config)),
             "net_autostart")

\* mutant: autostart is skipped when the bridge was already on the blade
AddVirtualNetworkAutostartOnce ==
    /\ pc = "net_autostart"
    /\ trace' = Append(trace, "net_autostart")
    /\ \/ /\ CanNetAutostart(registry, network_name(Config))
          /\ registry' = IF bridge_name(Config) \in IfNames(interfaces)
                         THEN registry
                         ELSE NetAutostart(registry, network_name(Config))
          /\ vnets' = Append(vnets, network_name(Config))
          /\ NextNetwork
       \/ /\ registry' = registry
          /\ vnets' = vnets
          /\ idx' = idx
          /\ Raise("command_failed")
    /\ UNCHANGED <<queries, cmdvars, platformvars>>
    /\ UNCHANGED <<networks, links, interfaces, vxlans, bridges, run,
                   device, local_ip_addr, fdb_i, entry, prev, blade0>>

\* add_virtual_network, lines 447-448, and the return to main's loop
AddVirtualNetworkAutostart ==
    /\ pc = "net_autostart"
    /\ trace' = Append(trace, "net_autostart")
    /\ \/ /\ CanNetAutostart(registry, network_name(Config))
          /\ registry' = NetAutostart(registry, network_name(Config))
          /\ vnets' = Append(vnets, network_name(Config))
          /\ NextNetwork
       \/ /\ registry' = registry
          /\ vnets' = vnets
          /\ idx' = idx
          /\ Raise("command_failed")
    /\ UNCHANGED <<queries, cmdvars, platformvars>>
    /\ UNCHANGED <<networks, links, interfaces, vxlans, bridges, run,
                   device, local_ip_addr, fdb_i, entry, prev, blade0>>

\* The script is run again on the blade (a new process, a new
\* NetworkInstaller) with the same configuration.
Rerun ==
    /\ pc = "done"
    /\ run < MaxRuns
    /\ run' = run + 1
    /\ prev' = BladeState(links, registry)
    /\ pc' = "setup_packages"
    /\ status' = "running"
    /\ idx' = 0
    /\ interfaces' = << >>
    /\ vxlans' = {}
    /\ bridges' = {}
    /\ vnets' = << >>
    /\ device' = None
    /\ local_ip_addr' = None
    /\ fdb_i' = 1
    /\ trace' = << >>
    /\ entry' = NoState
    /\ stderr' = << >>
    /\ UNCHANGED <<queries, cmdvars, platformvars>>
    /\ UNCHANGED <<networks, links, registry, blade0>>

Next ==
    \/ SetupPackages
    \/ NewInstaller
    \/ ConstructCheckConflict
    \/ RemoveTunnel
    \/ RemoveBridge
    \/ ConstructFindUnderlay
    \/ AddTunnel
    \/ AddBridge
    \/ SetMaster
    \/ ConnectEndpoints
    \/ RemoveVirtualNetwork
    \/ RemoveVirtualNetworkUndefine
    \/ AddVirtualNetworkDefine
    \/ AddVirtualNetworkStart
    \/ AddVirtualNetworkAutostart
    \/ Rerun

Spec == Init /\ [][Next]_vars


-----------------------------------------------------------------------------
(* _find_underlay alone: one call of construct_virtual_network that has    *)
(* reached line 477, on snapshots of interfaces with up to two addresses.  *)

Addresses == {"10.0.0.1", "10.0.0.2", "10.0.0.4"}

\* addr_info of an interface: no, one or two addresses
AddrLists ==
    {<< >>} \cup {<<a>> : a \in Addresses}
            \cup {al \in Addresses \X Addresses : al[1] # al[2]}

\* ifname by position in the output of "ip addr"
IfaceNames == <<"eth0", "eth1", "eth2", "eth3">>

Snapshots ==
    UNION { { [i \in 1..n |->
                Link(IfaceNames[i], "other", al[i], {}, None, None)] :
              al \in [1..n -> AddrLists] } : n \in 1..MaxIfs }

InitFindUnderlay ==
    /\ \E e \in EndpointLists :
          networks = << [network_name |-> "n0", tunnel_name |-> None,
                         bridge_name |-> None, endpoint_ips |-> e] >>
    /\ links \in Snapshots
    /\ registry = [n \in RegNames |-> Absent]
    /\ interfaces = GetInterfaces(links)
    /\ vxlans = {}
    /\ bridges = {}
    /\ vnets = << >>
    /\ pc = "find_underlay"
    /\ idx = 1
    /\ run = 1
    /\ status = "running"
    /\ device = None
    /\ local_ip_addr = None
    /\ fdb_i = 1
    /\ trace = <<"check_conflict">>
    /\ entry = BladeState(links, registry)
    /\ prev = NoState
    /\ blade0 = links
    /\ stderr = << >>
    /\ queries = <<"ok">>
    /\ NoCommand
    /\ NoPlatform

NextFindUnderlay == ConstructFindUnderlay

SpecFindUnderlay == InitFindUnderlay /\ [][NextFindUnderlay]_vars

-----------------------------------------------------------------------------
(* run_cmd(cmd, args, stdin, timeout): one call, followed poll by poll.    *)
(* The command either ends during a wait of 5 seconds or the wait times    *)
(* out.  A command that obeys SIGTERM ends during the wait that follows    *)
(* terminate(); one that ignores it runs on.                               *)

\* command.wait(timeout=5)
PollInterval == 5

\* timeout=None, the default of the parameter
NoTimeout == 0 - 1

Timeouts == {NoTimeout} \cup 0..MaxTimeout

\* exit statuses: success, failure, ended by SIGTERM
ExitOk == 0
ExitFail == 1
ExitSigterm == 0 - 15

InitRunCmd ==
    /\ networks = << >>
    /\ links = <<Eth0>>
    /\ registry = [n \in RegNames |-> Absent]
    /\ interfaces = << >>
    /\ vxlans = {}
    /\ bridges = {}
    /\ vnets = << >>
    /\ pc = "setup_packages"
    /\ idx = 0
    /\ run = 1
    /\ status = "running"
    /\ device = None
    /\ local_ip_addr = None
    /\ fdb_i = 1
    /\ trace = << >>
    /\ entry = NoState
    /\ prev = NoState
    /\ blade0 = links
    /\ stderr = << >>
    /\ queries = << >>
    /\ cmd_pc = "popen"
    /\ timeout \in Timeouts
    /\ time = 0
    /\ signaled = FALSE
    /\ exitval = 0
    /\ error = None
    /\ child \in [state : {"none"}, obeys : BOOLEAN, sigterm : {FALSE}]
    /\ terminates = 0
    /\ kills = 0
    /\ NoPlatform

\* lines 112-119: Popen starts the command, or raises OSError (line 144)
Popen ==
    /\ cmd_pc = "popen"
    /\ \/ /\ child' = [child EXCEPT !.state = "running"]
          /\ cmd_pc' = "wait"
          /\ error' = error
       \/ /\ child' = child
          /\ cmd_pc' = "raised"
          /\ error' = "executing_failed"
    /\ time' = 0
    /\ signaled' = FALSE
    /\ UNCHANGED <<timeout, exitval, terminates, kills>>
    /\ UNCHANGED <<scriptvars, platformvars>>

\* line 125 with "time >= timeout": the signal is sent at the limit itself
TimedOutInclusive(limit, now) ==
    limit # NoTimeout /\ limit # 0 /\ now >= limit

\* "if timeout and time > timeout" (line 125)
TimedOut(limit, now) == limit # NoTimeout /\ limit # 0 /\ now > limit

\* lines 151-156: the result of run_cmd once the wait is done
Result(val, sig) ==
    IF val = ExitOk THEN None
    ELSE IF ~sig THEN "failed" ELSE "timed_out_and_killed"

\* line 122 returns: the command ended during the wait; lines 141-156
WaitDone ==
    /\ cmd_pc = "wait"
    /\ child.state = "running"
    /\ \E val \in IF child.sigterm /\ child.obeys THEN {ExitSigterm}
                 ELSE {ExitOk, ExitFail} :
          /\ exitval' = val
          /\ error' = Result(val, signaled)
          /\ cmd_pc' = IF Result(val, signaled) = None THEN "returned"
                       ELSE "raised"
    /\ child' = [child EXCEPT !.state = "exited"]
    /\ UNCHANGED <<timeout, time, signaled, terminates, kills>>
    /\ UNCHANGED <<scriptvars, platformvars>>

\* line 122 raises TimeoutExpired: lines 123-140
WaitTimeoutExpired ==
    /\ cmd_pc = "wait"
    /\ child.state = "running"
    /\ ~(child.sigterm /\ child.obeys)
    /\ time < MaxTime
    /\ time' = time + PollInterval
    /\ IF TimedOut(timeout, time')
       THEN IF ~signaled
            THEN \* command.terminate(); continue
                 /\ terminates' = terminates + 1
                 /\ child' = [child EXCEPT !.sigterm = TRUE]
                 /\ signaled' = signaled
                 /\ cmd_pc' = "wait"
                 /\ UNCHANGED <<kills, error>>
            ELSE \* command.kill(); raise ContextualError
                 /\ kills' = kills + 1
                 /\ child' = [child EXCEPT !.state = "exited"]
                 /\ error' = "did_not_terminate"
                 /\ cmd_pc' = "raised"
                 /\ UNCHANGED <<terminates, signaled>>
       ELSE /\ cmd_pc' = "wait"
            /\ UNCHANGED <<child, signaled, terminates, kills, error>>
    /\ UNCHANGED <<timeout, exitval>>
    /\ UNCHANGED <<scriptvars, platformvars>>

NextRunCmd ==
    \/ Popen
    \/ WaitDone
    \/ WaitTimeoutExpired

SpecRunCmd == InitRunCmd /\ [][NextRunCmd]_vars

-----------------------------------------------------------------------------
(* The platform layer object: PrivatePlatform of vtds_platform_ubuntu and  *)
(* of vtds_platform_common, called through LayerAPI.  Calls are made one   *)
(* after the other; each call is one step, with the point at which it      *)
(* fails (if it does) chosen by the environment.                           *)

Layers == {"ubuntu", "common"}

\* __init__: the object as constructed, for a configuration of n networks
NewPlatform(layer, n) ==
    [layer |-> layer, networks |-> n, prepared |-> FALSE,
     provider_api |-> FALSE, endpoint_ips |-> 0, blade_config |-> "absent"]

\* the script is not being followed
NoScript ==
    /\ networks = << >>
    /\ links = <<Eth0>>
    /\ registry = [n \in RegNames |-> Absent]
    /\ interfaces = << >>
    /\ vxlans = {}
    /\ bridges = {}
    /\ vnets = << >>
    /\ pc = "setup_packages"
    /\ idx = 0
    /\ run = 1
    /\ status = "running"
    /\ device = None
    /\ local_ip_addr = None
    /\ fdb_i = 1
    /\ trace = << >>
    /\ entry = NoState
    /\ prev = NoState
    /\ blade0 = links
    /\ stderr = << >>
    /\ queries = << >>

InitPlatform ==
    /\ NoScript
    /\ NoCommand
    /\ \E layer \in Layers, n \in 0..MaxNets : platform = NewPlatform(layer, n)
    /\ deployed = {}
    /\ log = << >>

\* How prepare() may go, as <<the statement that raises, network index>>.
\* ubuntu: get_provider_api (line 100), __add_endpoint_ips of the k-th
\* network (line 104), open (line 107), safe_dump (line 108), or none.
\* common: nothing in prepare raises.
PrepareOutcomes(p) ==
    IF p.layer = "common" THEN {<<"ok", 0>>}
    ELSE {<<"ok", 0>>, <<"get_provider_api", 0>>, <<"open", 0>>,
          <<"safe_dump", 0>>}
         \cup {<<"add_endpoint_ips", k>> : k \in 1..p.networks}

\* the exception a call of prepare ends with
PrepareResult(o) ==
    CASE o[1] = "ok" -> "ok"
      [] o[1] \in {"get_provider_api", "add_endpoint_ips"} -> "ContextualError"
      [] OTHER -> "OSError"

\* mutant: the flag is set when prepare starts
AfterPrepareFlagFirst(p, o) ==
    IF p.layer = "common" THEN [p EXCEPT !.prepared = TRUE]
    ELSE CASE o[1] = "get_provider_api" -> [p EXCEPT !.prepared = TRUE]
           [] o[1] = "add_endpoint_ips" ->
                  [p EXCEPT !.provider_api = TRUE,
                            !.endpoint_ips = IF @ > o[2] - 1 THEN @ ELSE o[2] - 1,
                            !.prepared = TRUE]
           [] o[1] = "open" ->
                  [p EXCEPT !.provider_api = TRUE, !.endpoint_ips = p.networks,
                            !.prepared = TRUE]
           [] o[1] = "safe_dump" ->
                  [p EXCEPT !.provider_api = TRUE, !.endpoint_ips = p.networks,
                            !.blade_config = "partial", !.prepared = TRUE]
           [] OTHER ->
                  [p EXCEPT !.provider_api = TRUE, !.endpoint_ips = p.networks,
                            !.blade_config = "written", !.prepared = TRUE]

\* the object after prepare() went as o: common lines 54-55, ubuntu lines
\* 100-109 (endpoint_ips are stored in the network dictionaries of
\* self.config one by one; the file is truncated when opened)
AfterPrepare(p, o) ==
    IF p.layer = "common" THEN [p EXCEPT !.prepared = TRUE]
    ELSE CASE o[1] = "get_provider_api" -> p
           [] o[1] = "add_endpoint_ips" ->
                  [p EXCEPT !.provider_api = TRUE,
                            !.endpoint_ips = IF @ > o[2] - 1 THEN @ ELSE o[2] - 1]
           [] o[1] = "open" ->
                  [p EXCEPT !.provider_api = TRUE, !.endpoint_ips = p.networks]
           [] o[1] = "safe_dump" ->
                  [p EXCEPT !.provider_api = TRUE, !.endpoint_ips = p.networks,
                            !.blade_config = "partial"]
           [] OTHER ->
                  [p EXCEPT !.provider_api = TRUE, !.endpoint_ips = p.networks,
                            !.blade_config = "written", !.prepared = TRUE]

Called(op, result) == log' = Append(log, [op |-> op, result |-> result])

\* the result of a call that only checks the flag
Gate(p) == IF p.prepared THEN "ok" ELSE "ContextualError"

Prepare ==
    /\ Len(log) < MaxCalls
    /\ \E o \in PrepareOutcomes(platform) :
          /\ platform' = AfterPrepare(platform, o)
          /\ Called("prepare", PrepareResult(o))
    /\ UNCHANGED deployed
    /\ UNCHANGED <<scriptvars, cmdvars>>

Validate ==
    /\ Len(log) < MaxCalls
    /\ Called("validate", Gate(platform))
    /\ UNCHANGED <<platform, deployed>>
    /\ UNCHANGED <<scriptvars, cmdvars>>

\* How deploy() may go on a prepared object: 0, every blade was set up; k,
\* a command run for the k-th blade failed.  common only prints.
DeployOutcomes(p) == IF p.layer = "common" THEN {0} ELSE 0..MaxBlades

\* the blades the script has been run on after deploy() went as o
AfterDeploy(p, done, o) ==
    IF p.layer = "common" THEN done
    ELSE done \cup (IF o = 0 THEN 1..MaxBlades ELSE 1..(o - 1))

Deploy ==
    /\ Len(log) < MaxCalls
    /\ IF ~platform.prepared
       THEN /\ Called("deploy", "ContextualError")
            /\ UNCHANGED deployed
       ELSE \E o \in DeployOutcomes(platform) :
               /\ deployed' = AfterDeploy(platform, deployed, o)
               /\ Called("deploy", IF o = 0 THEN "ok" ELSE "ContextualError")
    /\ UNCHANGED platform
    /\ UNCHANGED <<scriptvars, cmdvars>>

Remove ==
    /\ Len(log) < MaxCalls
    /\ Called("remove", Gate(platform))
    /\ UNCHANGED <<platform, deployed>>
    /\ UNCHANGED <<scriptvars, cmdvars>>

NextPlatform ==
    \/ Prepare
    \/ Validate
    \/ Deploy
    \/ Remove

SpecPlatform == InitPlatform /\ [][NextPlatform]_vars

-----------------------------------------------------------------------------
(* Vocabulary of the properties.                                           *)

\* construct_virtual_network has just returned for the k-th network
Returned(k) ==
    \/ pc = "check_conflict" /\ idx = k + 1
    \/ pc = "done" /\ idx = k

\* the call of construct_virtual_network for networks[idx] has started
InCall == idx >= 1 /\ pc # "check_conflict"

DistinctNetworkNames ==
    \A i, j \in DOMAIN networks :
        i # j => network_name(networks[i]) # network_name(networks[j])

\* exactly one vxlan named tunnel_name, exactly one bridge named
\* bridge_name, the former mastered under the latter
Built(ls, config) ==
    /\ Cardinality({i \in DOMAIN ls : ls[i].ifname = tunnel_name(config)}) = 1
    /\ Cardinality({i \in DOMAIN ls : ls[i].ifname = bridge_name(config)}) = 1
    /\ IfDesc(ls, tunnel_name(config)).kind = "vxlan"
    /\ IfDesc(ls, bridge_name(config)).kind = "bridge"
    /\ IfDesc(ls, tunnel_name(config)).master = bridge_name(config)

\* the snapshot holds tunnel_name as a non-vxlan or bridge_name as a
\* non-bridge
WrongKindInSnapshot(config) ==
    \E i \in DOMAIN interfaces :
        \/ interfaces[i].ifname = tunnel_name(config)
              /\ interfaces[i].kind # "vxlan"
        \/ interfaces[i].ifname = bridge_name(config)
              /\ interfaces[i].kind # "bridge"

\* the blade state st holds tunnel_name as a non-vxlan or bridge_name as a
\* non-bridge
OccupiedByWrongKind(st, config) ==
    \E l \in st.links :
        \/ l.ifname = tunnel_name(config) /\ l.kind # "vxlan"
        \/ l.ifname = bridge_name(config) /\ l.kind # "bridge"

\* names of the tunnels and bridges the configuration declares
DeclaredNames ==
    UNION {{tunnel_name(networks[k]), bridge_name(networks[k])} :
              k \in DOMAIN networks}

\* the devices of the blade state st, by name
StateNames(st) == {l.ifname : l \in st.links}

\* no device was created and no forwarding entry added since the call began
NothingAdded ==
    \A i \in DOMAIN links : links[i] \in entry.links
        \/ \E l \in entry.links :
              links[i] = [l EXCEPT !.master = None]

-----------------------------------------------------------------------------
(* C1                                                                      *)

\* C1 as stated: at the end of a successful run every declared network
\* (network names pairwise distinct) has exactly one vxlan device named
\* tunnel_name and one bridge named bridge_name, the tunnel mastered under
\* the bridge.
C1_BuiltAtEndOfRun ==
    (pc = "done" /\ DistinctNetworkNames) =>
        \A k \in DOMAIN networks : Built(links, networks[k])

\* C1 amended: with pairwise distinct network names, each declared network
\* has its vxlan tunnel and its bridge, the tunnel mastered under the bridge,
\* at the moment its construct_virtual_network call returns (so at the end
\* of a successful run this holds of the last declared network).
C1_BuiltOnReturn ==
    DistinctNetworkNames =>
        \A k \in DOMAIN networks : Returned(k) => Built(links, networks[k])

\* A run of two networks ended successfully and replaced a device that was
\* on the blade before.
C1_Witness ==
    /\ pc = "done"
    /\ Len(networks) = 2
    /\ DistinctNetworkNames
    /\ \E k \in DOMAIN networks :
          {tunnel_name(networks[k]), bridge_name(networks[k])}
              \cap IfNames(blade0) # {}
    /\ \A k \in DOMAIN networks : Built(links, networks[k])

-----------------------------------------------------------------------------
(* C2                                                                      *)

\* C2: when construct_virtual_network returns, the forwarding destinations
\* on the tunnel are exactly the endpoint_ips other than the resolved local
\* address, whatever a tunnel of that name carried before.
C2_FdbIsRemoteEndpoints ==
    \A k \in DOMAIN networks :
        Returned(k) =>
            /\ local_ip_addr \in Elems(endpoint_ips(networks[k]))
            /\ IfDesc(links, tunnel_name(networks[k])).fdb =
                   Elems(endpoint_ips(networks[k])) \ {local_ip_addr}

\* The call returned for a network whose tunnel existed before the call with
\* a forwarding entry for an address that is no longer an endpoint.
C2_Witness ==
    \E k \in DOMAIN networks :
        /\ Returned(k)
        /\ \E l \in entry.links :
              /\ l.ifname = tunnel_name(networks[k])
              /\ l.fdb \ Elems(endpoint_ips(networks[k])) # {}

-----------------------------------------------------------------------------
(* C3                                                                      *)

\* endpoint_ips shares no address with any interface of the snapshot
NoUnderlay == UnderlayMatches(interfaces, endpoint_ips(Config)) = {}

\* C3 as stated: a call whose endpoint_ips matches no local address (and
\* whose names pass the conflict check) fails with the no-underlay error and
\* has mutated nothing when it fails.
C3_FailsBeforeAnyMutation ==
    (InCall /\ NoUnderlay /\ ~WrongKindInSnapshot(Config)) =>
        /\ BladeState(links, registry) = entry
        /\ pc = "exit" => status = "no_underlay"

\* C3 amended: a call whose endpoint_ips matches no local address never gets
\* past underlay resolution: it creates no link, adds no forwarding entry
\* and changes no registration; it has only removed the tunnel_name and
\* bridge_name links the snapshot lists.  It fails with the name-conflict
\* error when the conflict check rejects the names, with the command error
\* when a removal fails, and with the no-underlay error otherwise.
C3_FailsBeforeCreation ==
    (InCall /\ NoUnderlay) =>
        /\ pc \in {"remove_tunnel", "remove_bridge", "find_underlay", "exit"}
        /\ NothingAdded
        /\ registry = entry.registry
        /\ pc = "exit" =>
              status = IF trace = <<"check_conflict">> THEN "name_conflict"
                       ELSE IF trace[Len(trace)] = "find_underlay"
                            THEN "no_underlay"
                            ELSE "command_failed"

\* The no-underlay error was raised after a link had been removed.
C3_Witness ==
    /\ InCall
    /\ NoUnderlay
    /\ status = "no_underlay"
    /\ StateNames(entry) # IfNames(links)

-----------------------------------------------------------------------------
(* C4                                                                      *)

\* C4: with such an interface in the snapshot the call fails with the
\* name-conflict error and has mutated nothing; without one the conflict
\* check raises nothing.
C4_ConflictRejectedUnmutated ==
    InCall =>
        IF WrongKindInSnapshot(Config)
        THEN /\ pc = "exit"
             /\ status = "name_conflict"
             /\ BladeState(links, registry) = entry
             /\ trace = <<"check_conflict">>
        ELSE status # "name_conflict"

\* The call was rejected because of the bridge name alone.
C4_Witness ==
    /\ InCall
    /\ status = "name_conflict"
    /\ tunnel_name(Config) \notin IfNames(interfaces)
    /\ bridge_name(Config) \in IfNames(interfaces)

-----------------------------------------------------------------------------
(* C5                                                                      *)

\* C5: a call that starts while tunnel_name or bridge_name is occupied on
\* the blade by an interface of another kind is rejected with the
\* name-conflict error.
C5_WrongKindRejected ==
    (InCall /\ OccupiedByWrongKind(entry, Config)) =>
        pc = "exit" /\ status = "name_conflict"

-----------------------------------------------------------------------------
(* C6                                                                      *)

NoDeclaredUnderlay ==
    \A i \in DOMAIN blade0 :
        blade0[i].ifname \in DeclaredNames =>
            \A k \in DOMAIN networks :
                Elems(blade0[i].addrs) \cap Elems(endpoint_ips(networks[k])) = {}

\* the snapshot queries of every run so far returned the blade's state
SnapshotsFaithful == \A r \in DOMAIN queries : queries[r] = "ok"

-----------------------------------------------------------------------------
(* C7                                                                      *)

StepOrder ==
    << "check_conflict", "remove_tunnel", "remove_bridge", "find_underlay",
       "add_tunnel", "add_bridge", "set_master", "connect_endpoints",
       "remove_virtual_network", "net_undefine", "net_define", "net_start",
       "net_autostart" >>

\* the position of each step in StepOrder
Ranks ==
    [step \in {StepOrder[i] : i \in DOMAIN StepOrder} |->
        CHOOSE i \in DOMAIN StepOrder : StepOrder[i] = step]

Rank(step) == Ranks[step]

\* the steps that may come right before a step
Before(step) ==
    CASE step = "remove_tunnel" -> {"check_conflict"}
      [] step = "remove_bridge" -> {"check_conflict", "remove_tunnel"}
      [] step = "find_underlay" ->
             {"check_conflict", "remove_tunnel", "remove_bridge"}
      [] step = "add_tunnel" -> {"find_underlay"}
      [] step = "add_bridge" -> {"add_tunnel"}
      [] step = "set_master" -> {"add_bridge"}
      [] step = "connect_endpoints" -> {"set_master", "connect_endpoints"}
      [] step = "remove_virtual_network" -> {"set_master", "connect_endpoints"}
      [] step = "net_undefine" -> {"remove_virtual_network"}
      [] step = "net_define" -> {"remove_virtual_network", "net_undefine"}
      [] step = "net_start" -> {"net_define"}
      [] step = "net_autostart" -> {"net_start"}
      [] OTHER -> {}

\* the network the trace belongs to
TraceNet == IF pc = "check_conflict" THEN idx - 1 ELSE idx

\* C7: the steps of a call run in the order conflict check, removal of the
\* tunnel_name link then the bridge_name link when the snapshot lists them,
\* underlay resolution, tunnel creation, bridge creation, mastering,
\* forwarding entries, removal of the registration, define, start,
\* autostart; each only after the previous one.
C7_StepsInOrder ==
    (trace # << >> /\ trace[1] = "check_conflict") =>
        /\ \A i \in 2..Len(trace) :
              /\ trace[i - 1] \in Before(trace[i])
              /\ Rank(trace[i - 1]) <= Rank(trace[i])
        /\ \A i \in DOMAIN trace : trace[i] = "find_underlay" =>
              LET config == networks[TraceNet] IN
              /\ tunnel_name(config) \in IfNames(interfaces)
                    <=> "remove_tunnel" \in Elems(trace)
              /\ bridge_name(config) \in IfNames(interfaces)
                    <=> "remove_bridge" \in Elems(trace)

\* A call went through every step, both removals and the removal of an
\* existing registration included.
C7_Witness ==
    /\ Len(trace) >= Len(StepOrder)
    /\ \A i \in DOMAIN StepOrder : StepOrder[i] \in Elems(trace)

-----------------------------------------------------------------------------
(* C8                                                                      *)

Failed(st) == st \notin {"running", "ok"}

\* C8: the networks are processed in the order given, the next one only
\* after the previous call returned; a failing step changes nothing; and
\* after a failure no step is taken at all.
C8_AbortAtFirstFailure ==
    [][ /\ status # "running" => (status = "ok" /\ run' = run + 1)
        /\ run' = run => idx' \in {idx, idx + 1}
        /\ (run' = run /\ idx' = idx + 1 /\ idx >= 1) =>
              (pc = "net_autostart" /\ ~Failed(status'))
        /\ Failed(status') =>
              (links' = links /\ registry' = registry /\ idx' = idx)
      ]_vars

\* The second network failed after it had changed the blade, the first
\* network's devices being in place.
C8_Witness ==
    /\ Failed(status)
    /\ idx = 2
    /\ Built(links, networks[1])
    /\ BladeState(links, registry) # entry

-----------------------------------------------------------------------------
(* C9                                                                      *)

\* C9: when remove_virtual_network has returned, network_name is not
\* registered any more, whatever its state was; and when the call returns
\* the network is registered, running, marked autostart and bound to
\* bridge_name.
C9_RegistrationReplaced ==
    /\ (idx >= 1 /\ pc = "net_define") =>
          registry[network_name(Config)].state = "absent"
    /\ \A k \in DOMAIN networks : Returned(k) =>
          registry[network_name(networks[k])] =
              [state |-> "running", autostart |-> TRUE,
               bridge |-> bridge_name(networks[k])]

-----------------------------------------------------------------------------
(* C10                                                                     *)

\* C10: past the timeout the command is asked to terminate once, and at the
\* next poll it has not ended by it is killed: terminate() is never called
\* a second time, and a call that has asked for termination and met another
\* expired poll has killed the command.
C10_TerminateOnceThenKill ==
    /\ terminates <= 1
    /\ (terminates = 1 /\ timeout # NoTimeout /\ time > timeout + 2 * PollInterval)
          => kills = 1

-----------------------------------------------------------------------------
(* C11                                                                     *)

\* C11: a command ended through the timeout path (it exited on the SIGTERM
\* run_cmd sent it, or was killed) is never reported with the error of a
\* command that exited by itself with a nonzero status.
C11_TimeoutErrorDistinct ==
    (cmd_pc = "raised" /\ (exitval = ExitSigterm \/ kills > 0)) =>
        error # Result(ExitFail, FALSE)

-----------------------------------------------------------------------------
(* C12                                                                     *)

\* the process has ended
Exited == pc \in {"done", "exit"}

\* C12: the run exits with status zero exactly when main has returned, and
\* then every declared network has gone through its last step and nothing
\* was written as a diagnostic; a run that failed exits nonzero with exactly
\* one diagnostic, the one of the failure that ended it.
C12_ExitStatusAndOneDiagnostic ==
    /\ Len(stderr) <= 1
    /\ Failed(status) <=> pc = "exit"
    /\ Exited =>
          /\ ExitCode(status) = 0 <=> pc = "done"
          /\ pc = "done" =>
                /\ idx = Len(networks)
                /\ stderr = << >>
                /\ networks # << >> => trace[Len(trace)] = "net_autostart"
          /\ pc = "exit" => stderr = <<status>>
    /\ ~Exited => (status = "running" /\ stderr = << >>)

\* The second declared network failed after the first had succeeded: one
\* diagnostic, nonzero exit.
C12_Witness ==
    /\ pc = "exit"
    /\ idx = 2
    /\ ExitCode(status) = 1
    /\ stderr = <<"command_failed">>
    /\ Built(links, networks[1])

-----------------------------------------------------------------------------
(* C13                                                                     *)

\* a snapshot query of the current run failed
QueryFailed == Len(queries) = run /\ queries[run] # "ok"

\* C13: when a snapshot query fails, the run has failed: it has ended with
\* a nonzero exit status and one diagnostic, before any step on a network
\* device or a registration was taken.
C13_DiscoveryFailureEndsRun ==
    QueryFailed =>
        /\ pc = "exit"
        /\ ExitCode(status) = 1
        /\ Len(stderr) = 1
        /\ idx = 0
        /\ trace = << >>

-----------------------------------------------------------------------------
(* C14                                                                     *)

\* C14: a call that has deleted or created a link is one whose tunnel_name
\* and bridge_name are different names.
C14_TunnelDiffersFromBridge ==
    (InCall /\ Elems(links) # entry.links) =>
        tunnel_name(Config) # bridge_name(Config)

-----------------------------------------------------------------------------
(* C15                                                                     *)

\* the call has failed on a forwarding entry of connect_endpoints
MeshFailed ==
    /\ InCall
    /\ pc = "exit"
    /\ trace[Len(trace)] = "connect_endpoints"

\* C15: when a forwarding-entry addition fails, the tunnel carries exactly
\* the entries added before the failing one, the tunnel and the bridge just
\* created are in place, and the registration has been neither removed nor
\* defined: no registration step was taken and the registry is as it was.
C15_MeshFailureKeepsPartialState ==
    MeshFailed =>
        /\ status = "command_failed"
        /\ fdb_i \in DOMAIN remote_ips
        /\ IfDesc(links, tunnel_name(Config)).fdb =
               {remote_ips[k] : k \in 1..(fdb_i - 1)}
        /\ Built(links, Config)
        /\ registry = entry.registry
        /\ Elems(trace) \cap {"remove_virtual_network", "net_undefine",
                              "net_define", "net_start", "net_autostart"} = {}

\* The second forwarding entry failed after the first had been added.
C15_Witness ==
    /\ MeshFailed
    /\ fdb_i = 2
    /\ Len(remote_ips) = 2
    /\ IfDesc(links, tunnel_name(Config)).fdb = {remote_ips[1]}

-----------------------------------------------------------------------------
(* C16                                                                     *)

\* _find_underlay is the step the call took last
UnderlayResolved == trace # << >> /\ trace[Len(trace)] = "find_underlay"

\* the j-th address of the i-th interface of the snapshot is an endpoint
IsEndpoint(i, j) == interfaces[i].addrs[j] \in Elems(endpoint_ips(Config))

\* C16: _find_underlay returns the first interface of the snapshot, and the
\* first address on it, that is listed in endpoint_ips: the address is an
\* endpoint bound to the returned device and no address before it in scan
\* order is an endpoint; it raises the no-underlay error exactly when no
\* address of any interface is an endpoint.
C16_FirstMatchingAddress ==
    UnderlayResolved =>
        IF \E i \in DOMAIN interfaces : \E j \in DOMAIN interfaces[i].addrs :
               IsEndpoint(i, j)
        THEN /\ pc = "add_tunnel"
             /\ \E i \in DOMAIN interfaces : \E j \in DOMAIN interfaces[i].addrs :
                   /\ device = interfaces[i].ifname
                   /\ local_ip_addr = interfaces[i].addrs[j]
                   /\ IsEndpoint(i, j)
                   /\ \A l \in 1..(j - 1) : ~IsEndpoint(i, l)
                   /\ \A k \in 1..(i - 1) :
                         \A l \in DOMAIN interfaces[k].addrs : ~IsEndpoint(k, l)
        ELSE /\ pc = "exit"
             /\ status = "no_underlay"

\* The second address of the first interface was returned, its first
\* address being no endpoint and the second interface holding an endpoint
\* too.
C16_Witness ==
    /\ UnderlayResolved
    /\ Len(interfaces) = 2
    /\ Len(interfaces[1].addrs) = 2
    /\ ~IsEndpoint(1, 1)
    /\ IsEndpoint(2, 1)
    /\ device = interfaces[1].ifname
    /\ local_ip_addr = interfaces[1].addrs[2]

-----------------------------------------------------------------------------
(* C17                                                                     *)

\* a call of prepare has succeeded
PrepareSucceeded(calls) ==
    \E i \in DOMAIN calls : calls[i] = [op |-> "prepare", result |-> "ok"]

\* C17: a call of validate, deploy or remove on an object no prepare has
\* succeeded on raises an error and changes nothing; the prepared flag is
\* set exactly when a prepare has succeeded, is never cleared, and a prepare
\* that raises leaves it as it was.
C17_GatedByPrepared ==
    [][ Len(log') = Len(log) + 1 =>
          LET call == log'[Len(log')] IN
          /\ platform.prepared <=> PrepareSucceeded(log)
          /\ platform'.prepared <=> PrepareSucceeded(log')
          /\ platform.prepared => platform'.prepared
          /\ (call.op # "prepare" /\ ~PrepareSucceeded(log)) =>
                /\ call.result = "ContextualError"
                /\ platform' = platform
                /\ deployed' = deployed
          /\ (call.op = "prepare" /\ call.result # "ok") =>
                platform'.prepared = platform.prepared
      ]_vars

\* A prepare failed after get_provider_api, the deploy that followed was
\* refused, then a prepare succeeded and a deploy set up a blade.
C17_Witness ==
    /\ Len(log) = 4
    /\ log[1].op = "prepare" /\ log[1].result # "ok"
    /\ log[2] = [op |-> "deploy", result |-> "ContextualError"]
    /\ log[3] = [op |-> "prepare", result |-> "ok"]
    /\ log[4].op = "deploy"
    /\ platform.layer = "ubuntu"
    /\ platform.prepared
    /\ deployed # {}

-----------------------------------------------------------------------------
(* C18                                                                     *)

\* C18: a run_cmd call given a timeout does not go on polling: once it has
\* waited past the timeout, asked the command to terminate and met one more
\* expired poll, the call has returned or raised.
C18_WaitLoopBounded ==
    (timeout > 0 /\ time > timeout + 2 * PollInterval) =>
        cmd_pc \in {"returned", "raised"}

-----------------------------------------------------------------------------
(* C19                                                                     *)

\* C19: the device _find_underlay returned exists on the blade when
\* add_new_tunnel is about to create the tunnel on it.
C19_UnderlayDeviceExists ==
    (InCall /\ pc = "add_tunnel") => device \in IfNames(links)

-----------------------------------------------------------------------------
(* C20                                                                     *)

\* C20: when the first declared network is about to be processed, and at
\* the end of a successful run, "default" is not registered unless a
\* declared network is named "default" (the snapshot queries having
\* returned the state of the blade); vnets never holds a name twice; and a
\* name is appended to vnets only by the autostart step, the network being
\* defined, started and marked autostart.
C20_DefaultRemovedAndVnetsKept ==
    /\ (SnapshotsFaithful /\ (idx >= 1 \/ pc = "done")) =>
          (registry["default"].state # "absent" =>
              \E k \in DOMAIN networks : network_name(networks[k]) = "default")
    /\ \A i, j \in DOMAIN vnets : vnets[i] = vnets[j] => i = j
    /\ \A k \in DOMAIN networks : Returned(k) =>
          /\ network_name(networks[k]) \in Elems(vnets)
          /\ registry[network_name(networks[k])].state = "running"
          /\ registry[network_name(networks[k])].autostart

-----------------------------------------------------------------------------
(* C21                                                                     *)

\* the poll expiry of a positive timeout at which the accumulated wait first
\* exceeds it: 5 * (floor(timeout / 5) + 1)
FirstExpiryPast(limit) == PollInterval * ((limit \div PollInterval) + 1)

\* C21: run_cmd sends a signal (terminate or kill) only at a poll expiry
\* whose accumulated wait is strictly greater than a positive timeout; the
\* first terminate is sent exactly at the expiry 5 * (floor(timeout/5) + 1),
\* and a command still running at that expiry is sent it; with timeout None
\* or 0 no terminate or kill is ever sent and the call ends only because the
\* command ended by itself (or could not be started).
C21_FirstSignalAfterTimeout ==
    [][/\ (terminates' > terminates \/ kills' > kills) =>
             (timeout > 0 /\ time' > timeout)
       /\ (terminates = 0 /\ terminates' > 0) =>
             time' = FirstExpiryPast(timeout)
       /\ (cmd_pc = "wait" /\ time' # time /\ timeout > 0
             /\ time' = FirstExpiryPast(timeout)) =>
             (terminates = 0 /\ terminates' = 1)
       /\ (timeout \in {NoTimeout, 0}) =>
             /\ terminates' = 0
             /\ kills' = 0
             /\ ~child'.sigterm
             /\ (cmd_pc = "wait" /\ cmd_pc' # "wait") =>
                   (child.state = "running" /\ child'.state = "exited")
      ]_vars

\* a timeout that is a multiple of the poll interval: the terminate request
\* was sent at the third expiry, not at the second
C21_Witness ==
    /\ timeout = 2 * PollInterval
    /\ time = 3 * PollInterval
    /\ terminates = 1
    /\ kills = 0
    /\ child.sigterm
    /\ cmd_pc = "wait"

====
